---- MODULE Spec2Model ----
(***************************************************************************)
(* Gamepad input state of tetra: the device registry (ctx.input.pads), the *)
(* per-device double-buffered button sets and axis map, the query          *)
(* functions of src/input/gamepad.rs, and the frame cycle that drives      *)
(* them (drain the platform's events, run the queries, swap the buffers).  *)
(*                                                                         *)
(* Rust indices are 0-based: slot i of ctx.input.pads is pads[i + 1].      *)
(* Option<GamepadState> is a record with a `some` flag.  A HashMap is a    *)
(* set of <<key, value>> pairs with unique keys.  f32 axis values are      *)
(* small integers, 0 standing for 0.0.                                     *)
(*                                                                         *)
(* The browser backend (src/platform/web.rs): the keydown/keyup callbacks  *)
(* translate a raw keyboard event with into_key and append to event_queue; *)
(* handle_events pops the queue from the front and applies each event.     *)
(* Option<Key> is the key's name, or "None".                               *)
(***************************************************************************)
EXTENDS Integers, Sequences, FiniteSets, TLC

\* ---------------------------------------------------------------- bounds
MaxPads == 2          \* most devices connected at once (registry length cap)
MaxEvents == 3        \* keyboard events the callbacks append in one run

\* ------------------------------------------------------------ vocabulary
\* The enums are closed and no operation tells one variant from another, so
\* the model exercises the first variants of each.
GamepadButton == { "A", "B" }

GamepadAxis == { "LeftStickX" }

\* platform_id is an opaque i32 chosen by the platform
PlatformIds == { 1, 2 }

\* non-neutral axis positions (0 stands for 0.0)
AxisValues == { 1 }

GamepadStick == { "LeftStick", "RightStick" }

\* the axes that make up the two sticks
StickAxes == { "LeftStickX", "LeftStickY", "RightStickX", "RightStickY" }

\* gamepad indices a caller may pass: every slot, and one past the last
Indices == 0..MaxPads

\* KeyboardEvent.location()
Locations == { "STANDARD", "LEFT", "RIGHT", "NUMPAD" }

VARIABLES
    pads,        \* ctx.input.pads : Vec<Option<GamepadState>>
    pc,          \* position of the frame loop: "events" (drain) or "update"
    panicked,    \* the process has aborted on an out-of-bounds index
    connected,   \* history: slots the platform got from add_gamepad and has
                 \* not removed since
    max_connected,  \* history: the most devices connected at the same time
    drain_end,   \* history: per slot, the current_button_state its device
                 \* had when the prior frame's drain ended ({} if that device
                 \* was not connected then)
    tap_state,   \* history, kept only when Init turns it on: per slot and
                 \* button, what the events of the running drain did to a
                 \* button since the prior drain ended: "down" (was up, got
                 \* a down), "tap" (then an up), "up" (was down, got an up),
                 \* "retap" (then a down), else "none"; "tap" and "retap"
                 \* stay until the button's next event
    event_queue,        \* ctx.platform.event_queue : VecDeque<Event>
    current_key_state,  \* the keys the applied events leave down
    pushed,      \* history: every event the callbacks appended, in order
    applied,     \* history: every event handle_events applied, in order
    drain_start  \* history: Len(pushed) when the running (or last) call of
                 \* handle_events began

padvars == << pads, panicked, connected, max_connected, drain_end, tap_state >>

webvars == << event_queue, current_key_state, pushed, applied, drain_start >>

vars == << pads, pc, panicked, connected, max_connected, drain_end, tap_state,
           event_queue, current_key_state, pushed, applied, drain_start >>

\* --------------------------------------------------------- GamepadState
None == [ some |-> FALSE ]

\* mutant: the previous buffer starts full, so that nothing reads as pressed
\* in the device's first frame
GamepadState_new_held(platform_id) ==
    [ some |-> TRUE,
      platform_id |-> platform_id,
      current_button_state |-> {},
      previous_button_state |-> GamepadButton,
      current_axis_state |-> {} ]

GamepadState_new(platform_id) ==
    [ some |-> TRUE,
      platform_id |-> platform_id,
      current_button_state |-> {},
      previous_button_state |-> {},
      current_axis_state |-> {} ]

\* mutant: the insert also lands in the previous buffer
set_button_down_both(pad, btn) ==
    [ pad EXCEPT !.current_button_state = @ \cup { btn },
                 !.previous_button_state = @ \cup { btn } ]

set_button_down(pad, btn) ==
    [ pad EXCEPT !.current_button_state = @ \cup { btn } ]

\* mutant: the removal also clears the previous buffer
set_button_up_both(pad, btn) ==
    [ pad EXCEPT !.current_button_state = @ \ { btn },
                 !.previous_button_state = @ \ { btn } ]

\* mutant: HashSet::clear instead of remove
set_button_up_clear(pad, btn) ==
    [ pad EXCEPT !.current_button_state = {} ]

\* mutant: the removal leaves the button in the previous buffer, so that the
\* release is reported whatever came before it
set_button_up_latched(pad, btn) ==
    [ pad EXCEPT !.current_button_state = @ \ { btn },
                 !.previous_button_state = @ \cup { btn } ]

set_button_up(pad, btn) ==
    [ pad EXCEPT !.current_button_state = @ \ { btn } ]

\* HashMap::insert overwrites the value stored under the key
set_axis_position(pad, axis, value) ==
    [ pad EXCEPT !.current_axis_state =
          { e \in @ : e[1] # axis } \cup { << axis, value >> } ]

\* ------------------------------------------------------------- registry
\* mutant: an index past the end is clamped to the last slot
get_gamepad_clamped(gamepad_index) ==
    IF Len(pads) = 0
    THEN None
    ELSE IF gamepad_index < Len(pads)
         THEN pads[gamepad_index + 1]
         ELSE pads[Len(pads)]

\* ctx.input.pads.get(gamepad_index): None past the end, else the slot
get_gamepad(gamepad_index) ==
    IF gamepad_index < Len(pads) /\ pads[gamepad_index + 1].some
    THEN pads[gamepad_index + 1]
    ELSE None

get_gamepad_mut(gamepad_index) ==
    IF gamepad_index < Len(pads) /\ pads[gamepad_index + 1].some
    THEN pads[gamepad_index + 1]
    ELSE None

\* the for loop over pads.iter_mut().enumerate(), then the push
RECURSIVE add_gamepad_scan(_, _)
add_gamepad_scan(i, platform_id) ==
    IF i >= Len(pads)
    THEN [ pads |-> Append(pads, GamepadState_new(platform_id)),
           index |-> Len(pads) ]
    ELSE IF ~pads[i + 1].some
         THEN [ pads |-> [ pads EXCEPT ![i + 1] = GamepadState_new(platform_id) ],
                index |-> i ]
         ELSE add_gamepad_scan(i + 1, platform_id)

\* mutant: no scan for a free slot, always push
add_gamepad_push(platform_id) ==
    [ pads |-> Append(pads, GamepadState_new(platform_id)),
      index |-> Len(pads) ]

add_gamepad(platform_id) == add_gamepad_scan(0, platform_id)

\* mutant: Vec::remove, which shifts the later slots down
remove_gamepad_shift(gamepad_index) ==
    IF gamepad_index < Len(pads)
    THEN [ pads |-> [ n \in 1..(Len(pads) - 1) |->
                        IF n <= gamepad_index THEN pads[n] ELSE pads[n + 1] ],
           panic |-> FALSE ]
    ELSE [ pads |-> pads, panic |-> TRUE ]

\* mutant: take().unwrap(), which panics on a slot that is already empty
remove_gamepad_unwrap(gamepad_index) ==
    IF gamepad_index < Len(pads) /\ pads[gamepad_index + 1].some
    THEN [ pads |-> [ pads EXCEPT ![gamepad_index + 1] = None ], panic |-> FALSE ]
    ELSE [ pads |-> pads, panic |-> TRUE ]

\* mutant: the empty slots at the end of the registry are dropped
remove_gamepad_truncate(gamepad_index) ==
    IF gamepad_index < Len(pads)
    THEN LET cleared == [ pads EXCEPT ![gamepad_index + 1] = None ]
             used == { n \in 1..Len(cleared) : cleared[n].some }
             last == IF used = {} THEN 0
                     ELSE CHOOSE n \in used : \A m \in used : m <= n
         IN  [ pads |-> SubSeq(cleared, 1, last), panic |-> FALSE ]
    ELSE [ pads |-> pads, panic |-> TRUE ]

\* Vec's IndexMut panics when the index is not below the length
remove_gamepad(gamepad_index) ==
    IF gamepad_index < Len(pads)
    THEN [ pads |-> [ pads EXCEPT ![gamepad_index + 1] = None ], panic |-> FALSE ]
    ELSE [ pads |-> pads, panic |-> TRUE ]

\* -------------------------------------------------------------- queries
\* mutant: only the bounds are checked, not whether the slot is occupied
is_gamepad_connected_in_range(gamepad_index) ==
    gamepad_index < Len(pads)

is_gamepad_connected(gamepad_index) ==
    get_gamepad(gamepad_index).some

is_gamepad_button_down(gamepad_index, button) ==
    LET pad == get_gamepad(gamepad_index)
    IN  IF pad.some THEN button \in pad.current_button_state ELSE FALSE

\* mutant: the disconnected branch returns false, as the other queries do
is_gamepad_button_up_false(gamepad_index, button) ==
    LET pad == get_gamepad(gamepad_index)
    IN  IF pad.some THEN button \notin pad.current_button_state ELSE FALSE

is_gamepad_button_up(gamepad_index, button) ==
    LET pad == get_gamepad(gamepad_index)
    IN  IF pad.some THEN button \notin pad.current_button_state ELSE TRUE

\* mutant: the previous buffer is not consulted
is_gamepad_button_pressed_current(gamepad_index, button) ==
    LET pad == get_gamepad(gamepad_index)
    IN  IF pad.some THEN button \in pad.current_button_state ELSE FALSE

is_gamepad_button_pressed(gamepad_index, button) ==
    LET pad == get_gamepad(gamepad_index)
    IN  IF pad.some
        THEN button \notin pad.previous_button_state
             /\ button \in pad.current_button_state
        ELSE FALSE

\* mutant: the body of is_gamepad_button_pressed, pasted unchanged
is_gamepad_button_released_pasted(gamepad_index, button) ==
    LET pad == get_gamepad(gamepad_index)
    IN  IF pad.some
        THEN button \notin pad.previous_button_state
             /\ button \in pad.current_button_state
        ELSE FALSE

is_gamepad_button_released(gamepad_index, button) ==
    LET pad == get_gamepad(gamepad_index)
    IN  IF pad.some
        THEN button \in pad.previous_button_state
             /\ button \notin pad.current_button_state
        ELSE FALSE

\* the iterators, as the set of the items they yield
get_gamepad_buttons_down(gamepad_index) ==
    LET pad == get_gamepad(gamepad_index)
    IN  IF pad.some THEN pad.current_button_state ELSE {}

\* mutant: the operands of difference the other way round
get_gamepad_buttons_pressed_swapped(gamepad_index) ==
    LET pad == get_gamepad(gamepad_index)
    IN  IF pad.some
        THEN pad.previous_button_state \ pad.current_button_state
        ELSE {}

get_gamepad_buttons_pressed(gamepad_index) ==
    LET pad == get_gamepad(gamepad_index)
    IN  IF pad.some
        THEN pad.current_button_state \ pad.previous_button_state
        ELSE {}

get_gamepad_buttons_released(gamepad_index) ==
    LET pad == get_gamepad(gamepad_index)
    IN  IF pad.some
        THEN pad.previous_button_state \ pad.current_button_state
        ELSE {}

get_gamepad_axis_position(gamepad_index, axis) ==
    LET pad == get_gamepad(gamepad_index)
    IN  IF pad.some
        THEN IF \E e \in pad.current_axis_state : e[1] = axis
             THEN (CHOOSE e \in pad.current_axis_state : e[1] = axis)[2]
             ELSE 0
        ELSE 0

\* mutant: the right stick's y axis is a pasted LeftStickY
get_gamepad_stick_position_pasted(gamepad_index, stick) ==
    LET axes == IF stick = "LeftStick"
                THEN << "LeftStickX", "LeftStickY" >>
                ELSE << "RightStickX", "LeftStickY" >>
    IN  << get_gamepad_axis_position(gamepad_index, axes[1]),
           get_gamepad_axis_position(gamepad_index, axes[2]) >>

\* Vec2::new(x, y) is the pair << x, y >>
get_gamepad_stick_position(gamepad_index, stick) ==
    LET axes == IF stick = "LeftStick"
                THEN << "LeftStickX", "LeftStickY" >>
                ELSE << "RightStickX", "RightStickY" >>
    IN  << get_gamepad_axis_position(gamepad_index, axes[1]),
           get_gamepad_axis_position(gamepad_index, axes[2]) >>

\* ------------------------------------------------------ history helpers
Slots == 0..(MaxPads - 1)

NumConnected == Cardinality({ n \in 1..Len(pads) : pads[n].some })

CurrentButtonsBySlot ==
    [ i \in Slots |->
        IF i < Len(pads) /\ pads[i + 1].some
        THEN pads[i + 1].current_button_state
        ELSE {} ]

\* tap_state when no history of the drain's events is kept
NoTaps == [ x \in {} |-> "none" ]

\* tap_state after an event the slot's device took for the button
TapsAfterEvent(gamepad_index, button, type) ==
    LET x == << gamepad_index, button >>
    IN  IF x \notin DOMAIN tap_state \/ ~get_gamepad(gamepad_index).some
        THEN tap_state
        ELSE IF button \notin drain_end[gamepad_index]
        THEN [ tap_state EXCEPT ![x] =
                 IF type = "down" THEN "down"
                 ELSE IF @ \in { "down", "tap" } THEN "tap" ELSE "none" ]
        ELSE [ tap_state EXCEPT ![x] =
                 IF type = "up" THEN "up"
                 ELSE IF @ \in { "up", "retap" } THEN "retap" ELSE "none" ]

\* tap_state with the slot's buttons back to "none"
TapsWithout(gamepad_index) ==
    [ x \in DOMAIN tap_state |->
        IF x[1] = gamepad_index THEN "none" ELSE tap_state[x] ]

\* ---------------------------------------------------------------- Init
\* the program after construction
InitProgram ==
    /\ pads = << >>
    /\ pc = "events"
    /\ panicked = FALSE
    /\ connected = {}
    /\ max_connected = 0
    /\ drain_end = [ i \in Slots |-> {} ]
    /\ event_queue = << >>
    /\ current_key_state = {}
    /\ pushed = << >>
    /\ applied = << >>
    /\ drain_start = 0

Init == InitProgram /\ tap_state = NoTaps

\* the same, with the history of the drain's button events kept
InitTap ==
    InitProgram /\ tap_state = [ x \in Slots \X GamepadButton |-> "none" ]

\* --------------------------------------------- the drain of one frame
\* The platform's handle_events applies each pending event in turn.

ControllerDeviceAdded(platform_id) ==
    /\ pc = "events" /\ ~panicked
    /\ NumConnected < MaxPads
    /\ LET r == add_gamepad(platform_id)
       IN  /\ pads' = r.pads
           /\ connected' = connected \cup { r.index }
           /\ drain_end' = [ drain_end EXCEPT ![r.index] = {} ]
           /\ tap_state' = TapsWithout(r.index)
    /\ max_connected' = IF NumConnected' > max_connected
                        THEN NumConnected'
                        ELSE max_connected
    /\ UNCHANGED << pc, panicked >>
    /\ UNCHANGED webvars

ControllerDeviceRemoved(gamepad_index) ==
    /\ pc = "events" /\ ~panicked
    /\ LET r == remove_gamepad(gamepad_index)
       IN  /\ pads' = r.pads
           /\ panicked' = r.panic
           /\ connected' = IF r.panic THEN connected
                           ELSE connected \ { gamepad_index }
           /\ drain_end' = IF r.panic THEN drain_end
                           ELSE [ drain_end EXCEPT ![gamepad_index] = {} ]
           /\ tap_state' = IF r.panic THEN tap_state
                           ELSE TapsWithout(gamepad_index)
    /\ UNCHANGED << pc, max_connected >>
    /\ UNCHANGED webvars

ControllerButtonDown(gamepad_index, button) ==
    /\ pc = "events" /\ ~panicked
    /\ LET pad == get_gamepad_mut(gamepad_index)
       IN  pads' = IF pad.some
                   THEN [ pads EXCEPT ![gamepad_index + 1] =
                              set_button_down(pad, button) ]
                   ELSE pads
    /\ tap_state' = TapsAfterEvent(gamepad_index, button, "down")
    /\ UNCHANGED << pc, panicked, connected, max_connected, drain_end >>
    /\ UNCHANGED webvars

ControllerButtonUp(gamepad_index, button) ==
    /\ pc = "events" /\ ~panicked
    /\ LET pad == get_gamepad_mut(gamepad_index)
       IN  pads' = IF pad.some
                   THEN [ pads EXCEPT ![gamepad_index + 1] =
                              set_button_up(pad, button) ]
                   ELSE pads
    /\ tap_state' = TapsAfterEvent(gamepad_index, button, "up")
    /\ UNCHANGED << pc, panicked, connected, max_connected, drain_end >>
    /\ UNCHANGED webvars

ControllerAxisMotion(gamepad_index, axis, value) ==
    /\ pc = "events" /\ ~panicked
    /\ LET pad == get_gamepad_mut(gamepad_index)
       IN  pads' = IF pad.some
                   THEN [ pads EXCEPT ![gamepad_index + 1] =
                              set_axis_position(pad, axis, value) ]
                   ELSE pads
    /\ UNCHANGED << pc, panicked, connected, max_connected, drain_end, tap_state >>
    /\ UNCHANGED webvars

\* no event is left: handle_events returns Ok(()), the update (and the
\* queries it makes) runs next
DrainDone ==
    /\ pc = "events" /\ ~panicked
    /\ pc' = "update"
    /\ drain_end' = CurrentButtonsBySlot
    /\ tap_state' = [ x \in DOMAIN tap_state |->
                        IF tap_state[x] \in { "tap", "retap" }
                        THEN tap_state[x] ELSE "none" ]
    /\ UNCHANGED << pads, panicked, connected, max_connected >>
    /\ UNCHANGED webvars

\* the previous/current swap of every connected device, at the frame boundary
begin_frame ==
    [ n \in 1..Len(pads) |->
        IF pads[n].some
        THEN [ pads[n] EXCEPT !.previous_button_state =
                                  pads[n].current_button_state ]
        ELSE pads[n] ]

BeginFrame ==
    /\ pc = "update" /\ ~panicked
    /\ pads' = begin_frame
    /\ pc' = "events"
    /\ UNCHANGED << panicked, connected, max_connected, drain_end, tap_state >>
    /\ UNCHANGED webvars

\* the frame loop with the button and connection events
Next ==
    \/ \E id \in PlatformIds : ControllerDeviceAdded(id)
    \/ \E i \in Indices : ControllerDeviceRemoved(i)
    \/ \E i \in Indices, b \in GamepadButton : ControllerButtonDown(i, b)
    \/ \E i \in Indices, b \in GamepadButton : ControllerButtonUp(i, b)
    \/ DrainDone
    \/ BeginFrame

Spec == Init /\ [][Next]_vars

\* the same loop with the axis events as well
NextAxis ==
    \/ \E id \in PlatformIds : ControllerDeviceAdded(id)
    \/ \E i \in Indices : ControllerDeviceRemoved(i)
    \/ \E i \in Indices, b \in GamepadButton : ControllerButtonDown(i, b)
    \/ \E i \in Indices, b \in GamepadButton : ControllerButtonUp(i, b)
    \/ \E i \in Indices, a \in GamepadAxis, v \in AxisValues :
           ControllerAxisMotion(i, a, v)
    \/ DrainDone
    \/ BeginFrame

SpecAxis == Init /\ [][NextAxis]_vars

\* the frame loop, with the history of the drain's button events kept
SpecTap == InitTap /\ [][Next]_vars

\* the same loop with the connection events and the stick axes' events
NextStick ==
    \/ \E id \in PlatformIds : ControllerDeviceAdded(id)
    \/ \E i \in Indices : ControllerDeviceRemoved(i)
    \/ \E i \in Indices, a \in StickAxes, v \in AxisValues :
           ControllerAxisMotion(i, a, v)
    \/ DrainDone
    \/ BeginFrame

SpecStick == Init /\ [][NextStick]_vars

\* ------------------------------------------------- browser backend
\* The arms of into_key's match, in source order: key string, location
\* pattern ("_" matches any location), the Key returned.
KeyTable ==
    <<
       << "a", "_", "A" >>,
       << "A", "_", "A" >>,
       << "b", "_", "B" >>,
       << "B", "_", "B" >>,
       << "c", "_", "C" >>,
       << "C", "_", "C" >>,
       << "d", "_", "D" >>,
       << "D", "_", "D" >>,
       << "e", "_", "E" >>,
       << "E", "_", "E" >>,
       << "f", "_", "F" >>,
       << "F", "_", "F" >>,
       << "g", "_", "G" >>,
       << "G", "_", "G" >>,
       << "h", "_", "H" >>,
       << "H", "_", "H" >>,
       << "i", "_", "I" >>,
       << "I", "_", "I" >>,
       << "j", "_", "J" >>,
       << "J", "_", "J" >>,
       << "k", "_", "K" >>,
       << "K", "_", "K" >>,
       << "l", "_", "L" >>,
       << "L", "_", "L" >>,
       << "m", "_", "M" >>,
       << "M", "_", "M" >>,
       << "n", "_", "N" >>,
       << "N", "_", "N" >>,
       << "o", "_", "O" >>,
       << "O", "_", "O" >>,
       << "p", "_", "P" >>,
       << "P", "_", "P" >>,
       << "q", "_", "Q" >>,
       << "Q", "_", "Q" >>,
       << "r", "_", "R" >>,
       << "R", "_", "R" >>,
       << "s", "_", "S" >>,
       << "S", "_", "S" >>,
       << "t", "_", "T" >>,
       << "T", "_", "T" >>,
       << "u", "_", "U" >>,
       << "U", "_", "U" >>,
       << "v", "_", "V" >>,
       << "V", "_", "V" >>,
       << "w", "_", "W" >>,
       << "W", "_", "W" >>,
       << "x", "_", "X" >>,
       << "X", "_", "X" >>,
       << "y", "_", "Y" >>,
       << "Y", "_", "Y" >>,
       << "z", "_", "Z" >>,
       << "Z", "_", "Z" >>,
       << "0", "STANDARD", "Num0" >>,
       << "1", "STANDARD", "Num1" >>,
       << "2", "STANDARD", "Num2" >>,
       << "3", "STANDARD", "Num3" >>,
       << "4", "STANDARD", "Num4" >>,
       << "5", "STANDARD", "Num5" >>,
       << "6", "STANDARD", "Num6" >>,
       << "7", "STANDARD", "Num7" >>,
       << "8", "STANDARD", "Num8" >>,
       << "9", "STANDARD", "Num9" >>,
       << "F1", "_", "F1" >>,
       << "F2", "_", "F2" >>,
       << "F3", "_", "F3" >>,
       << "F4", "_", "F4" >>,
       << "F5", "_", "F5" >>,
       << "F6", "_", "F6" >>,
       << "F7", "_", "F7" >>,
       << "F8", "_", "F8" >>,
       << "F9", "_", "F9" >>,
       << "F10", "_", "F10" >>,
       << "F11", "_", "F11" >>,
       << "F12", "_", "F12" >>,
       << "F13", "_", "F13" >>,
       << "F14", "_", "F14" >>,
       << "F15", "_", "F15" >>,
       << "F16", "_", "F16" >>,
       << "F17", "_", "F17" >>,
       << "F18", "_", "F18" >>,
       << "F19", "_", "F19" >>,
       << "F20", "_", "F20" >>,
       << "F21", "_", "F21" >>,
       << "F22", "_", "F22" >>,
       << "F23", "_", "F23" >>,
       << "F24", "_", "F24" >>,
       << "NumLock", "_", "NumLock" >>,
       << "0", "NUMPAD", "NumPad1" >>,
       << "1", "NUMPAD", "NumPad2" >>,
       << "2", "NUMPAD", "NumPad3" >>,
       << "3", "NUMPAD", "NumPad4" >>,
       << "4", "NUMPAD", "NumPad5" >>,
       << "5", "NUMPAD", "NumPad6" >>,
       << "6", "NUMPAD", "NumPad7" >>,
       << "7", "NUMPAD", "NumPad8" >>,
       << "8", "NUMPAD", "NumPad9" >>,
       << "9", "NUMPAD", "NumPad0" >>,
       << "+", "NUMPAD", "NumPadPlus" >>,
       << "-", "NUMPAD", "NumPadMinus" >>,
       << "*", "NUMPAD", "NumPadMultiply" >>,
       << "/", "NUMPAD", "NumPadDivide" >>,
       << "Enter", "NUMPAD", "NumPadEnter" >>,
       << "Control", "LEFT", "LeftCtrl" >>,
       << "Shift", "LEFT", "LeftShift" >>,
       << "Alt", "LEFT", "LeftAlt" >>,
       << "Control", "LEFT", "RightCtrl" >>,
       << "Shift", "LEFT", "RightShift" >>,
       << "Alt", "LEFT", "RightAlt" >>,
       << "ArrowUp", "_", "Up" >>,
       << "ArrowDown", "_", "Down" >>,
       << "ArrowLeft", "_", "Left" >>,
       << "ArrowRight", "_", "Right" >>,
       << "&", "_", "Ampersand" >>,
       << "*", "STANDARD", "Asterisk" >>,
       << "@", "_", "At" >>,
       << "`", "_", "Backquote" >>,
       << "\\", "_", "Backslash" >>,
       << "Backspace", "_", "Backspace" >>,
       << "CapsLock", "_", "CapsLock" >>,
       << "^", "_", "Caret" >>,
       << ":", "_", "Colon" >>,
       << ",", "_", "Comma" >>,
       << "Delete", "_", "Delete" >>,
       << "$", "_", "Dollar" >>,
       << "\"", "_", "DoubleQuote" >>,
       << "End", "_", "End" >>,
       << "Enter", "STANDARD", "Enter" >>,
       << "=", "_", "Equals" >>,
       << "Escape", "_", "Escape" >>,
       << "!", "_", "Exclaim" >>,
       << ">", "_", "GreaterThan" >>,
       << "#", "_", "Hash" >>,
       << "Home", "_", "Home" >>,
       << "Insert", "_", "Insert" >>,
       << "{", "_", "LeftBracket" >>,
       << "(", "_", "LeftParen" >>,
       << "<", "_", "LessThan" >>,
       << "-", "STANDARD", "Minus" >>,
       << "PageDown", "_", "PageDown" >>,
       << "PageUp", "_", "PageUp" >>,
       << "Pause", "_", "Pause" >>,
       << "%", "_", "Percent" >>,
       << ".", "_", "Period" >>,
       << "+", "STANDARD", "Plus" >>,
       << "PrintScreen", "_", "PrintScreen" >>,
       << "?", "_", "Question" >>,
       << "'", "_", "Quote" >>,
       << "}", "_", "RightBracket" >>,
       << ")", "_", "RightParen" >>,
       << "ScrollLock", "_", "ScrollLock" >>,
       << ";", "_", "Semicolon" >>,
       << "/", "STANDARD", "Slash" >>,
       << " ", "_", "Space" >>,
       << "Tab", "_", "Tab" >>,
       << "_", "_", "Underscore" >>
    >>

\* mutant: the arms of the right-hand modifiers test the right location
KeyTableRight ==
    [ n \in DOMAIN KeyTable |->
        IF KeyTable[n][3] \in { "RightCtrl", "RightShift", "RightAlt" }
        THEN << KeyTable[n][1], "RIGHT", KeyTable[n][3] >>
        ELSE KeyTable[n] ]

\* a match takes the first arm whose pattern fits, and the final `_ => None`
FirstArm(table, key, location) ==
    LET hits == { n \in DOMAIN table :
                    table[n][1] = key /\ table[n][2] \in { "_", location } }
    IN  IF hits = {}
        THEN "None"
        ELSE table[CHOOSE n \in hits : \A m \in hits : n <= m][3]

into_key_right(key, location) == FirstArm(KeyTableRight, key, location)

into_key(key, location) == FirstArm(KeyTable, key, location)

KeyDown(key) == [ type |-> "KeyDown", key |-> key ]

KeyUp(key) == [ type |-> "KeyUp", key |-> key ]

\* input::set_key_down / input::set_key_up on the keyboard state
set_key_down(keys, key) == keys \cup { key }

set_key_up(keys, key) == keys \ { key }

\* mutant: push_front instead of push_back
keydown_closure_front(key, location) ==
    /\ ~panicked
    /\ Len(pushed) < MaxEvents
    /\ LET k == into_key(key, location)
       IN  IF k # "None"
           THEN /\ event_queue' = << KeyDown(k) >> \o event_queue
                /\ pushed' = Append(pushed, KeyDown(k))
           ELSE UNCHANGED << event_queue, pushed >>
    /\ UNCHANGED << pc, current_key_state, applied, drain_start >>
    /\ UNCHANGED padvars

\* the "keydown" listener
keydown_closure(key, location) ==
    /\ ~panicked
    /\ Len(pushed) < MaxEvents
    /\ LET k == into_key(key, location)
       IN  IF k # "None"
           THEN /\ event_queue' = Append(event_queue, KeyDown(k))
                /\ pushed' = Append(pushed, KeyDown(k))
           ELSE UNCHANGED << event_queue, pushed >>
    /\ UNCHANGED << pc, current_key_state, applied, drain_start >>
    /\ UNCHANGED padvars

\* mutant: the keydown listener's body, pasted with the event left as KeyDown
keyup_closure_pasted(key, location) ==
    /\ ~panicked
    /\ Len(pushed) < MaxEvents
    /\ LET k == into_key(key, location)
       IN  IF k # "None"
           THEN /\ event_queue' = Append(event_queue, KeyDown(k))
                /\ pushed' = Append(pushed, KeyDown(k))
           ELSE UNCHANGED << event_queue, pushed >>
    /\ UNCHANGED << pc, current_key_state, applied, drain_start >>
    /\ UNCHANGED padvars

\* the "keyup" listener
keyup_closure(key, location) ==
    /\ ~panicked
    /\ Len(pushed) < MaxEvents
    /\ LET k == into_key(key, location)
       IN  IF k # "None"
           THEN /\ event_queue' = Append(event_queue, KeyUp(k))
                /\ pushed' = Append(pushed, KeyUp(k))
           ELSE UNCHANGED << event_queue, pushed >>
    /\ UNCHANGED << pc, current_key_state, applied, drain_start >>
    /\ UNCHANGED padvars

\* mutant: pop_back instead of pop_front
HandleEventsPopBack ==
    /\ pc = "events" /\ ~panicked
    /\ event_queue # << >>
    /\ LET event == event_queue[Len(event_queue)]
       IN  /\ event_queue' = SubSeq(event_queue, 1, Len(event_queue) - 1)
           /\ current_key_state' =
                  IF event.type = "KeyDown"
                  THEN set_key_down(current_key_state, event.key)
                  ELSE set_key_up(current_key_state, event.key)
           /\ applied' = Append(applied, event)
    /\ UNCHANGED << pc, pushed, drain_start >>
    /\ UNCHANGED padvars

\* one turn of handle_events' loop: pop_front gave Some(event), apply it
HandleEventsPop ==
    /\ pc = "events" /\ ~panicked
    /\ event_queue # << >>
    /\ LET event == Head(event_queue)
       IN  /\ event_queue' = Tail(event_queue)
           /\ current_key_state' =
                  IF event.type = "KeyDown"
                  THEN set_key_down(current_key_state, event.key)
                  ELSE set_key_up(current_key_state, event.key)
           /\ applied' = Append(applied, event)
    /\ UNCHANGED << pc, pushed, drain_start >>
    /\ UNCHANGED padvars

\* mutant: the loop can end without having found the queue empty
HandleEventsReturnEarly ==
    /\ pc = "events" /\ ~panicked
    /\ pc' = "update"
    /\ UNCHANGED webvars
    /\ UNCHANGED padvars

\* pop_front gave None: the loop ends and handle_events returns Ok(())
HandleEventsReturn ==
    /\ pc = "events" /\ ~panicked
    /\ event_queue = << >>
    /\ pc' = "update"
    /\ UNCHANGED webvars
    /\ UNCHANGED padvars

\* the animation-frame callback runs the next frame, which calls handle_events
FrameCallback ==
    /\ pc = "update" /\ ~panicked
    /\ pc' = "events"
    /\ drain_start' = Len(pushed)
    /\ UNCHANGED << event_queue, current_key_state, pushed, applied >>
    /\ UNCHANGED padvars

\* raw keyboard events the browser delivers: two keys, and a right-hand
\* Control, which into_key does not recognise
WebRawEvents ==
    { << "a", "STANDARD" >>, << "Enter", "NUMPAD" >>, << "Control", "RIGHT" >> }

\* The browser runs the listeners and the frame callback on one thread: a
\* listener runs between frames, never inside handle_events.
NextWeb ==
    \/ \E raw \in WebRawEvents : pc = "update" /\ keydown_closure(raw[1], raw[2])
    \/ \E raw \in WebRawEvents : pc = "update" /\ keyup_closure(raw[1], raw[2])
    \/ HandleEventsPop
    \/ HandleEventsReturn
    \/ FrameCallback

SpecWeb == Init /\ [][NextWeb]_vars

\* handle_events is straight-line code: once called it keeps running
SpecWebFair ==
    /\ Init
    /\ [][NextWeb]_vars
    /\ WF_vars(HandleEventsPop)
    /\ WF_vars(HandleEventsReturn)

\* capture in another execution context: a listener may run between any two
\* turns of handle_events' loop
NextWebAsync ==
    \/ \E raw \in WebRawEvents : keydown_closure(raw[1], raw[2])
    \/ \E raw \in WebRawEvents : keyup_closure(raw[1], raw[2])
    \/ HandleEventsPop
    \/ HandleEventsReturn
    \/ FrameCallback

SpecWebAsync == Init /\ [][NextWebAsync]_vars

\* every raw event into_key has an arm for, at every location, and one it has
\* no arm for
AllRawEvents ==
    ({ KeyTable[n][1] : n \in DOMAIN KeyTable } \cup { "Unidentified" }) \X Locations

\* each raw event translated and queued on its own
NextKey ==
    \/ \E raw \in AllRawEvents :
           event_queue = << >> /\ keydown_closure(raw[1], raw[2])
    \/ \E raw \in AllRawEvents :
           event_queue = << >> /\ keyup_closure(raw[1], raw[2])

SpecKey == Init /\ [][NextKey]_vars

\* ================================================================ claims

\* what a slot holds, read off the registry itself
SlotEmpty(d) == d >= Len(pads) \/ ~pads[d + 1].some

SlotOccupied(d) == d < Len(pads) /\ pads[d + 1].some

\* C1: for every index (connected, removed or out of range) and every
\* button, is_gamepad_button_down is the negation of is_gamepad_button_up.
C1_DownIsNotUp ==
    \A d \in Indices, b \in GamepadButton :
        is_gamepad_button_down(d, b) = ~is_gamepad_button_up(d, b)

\* a connected device holding a button, next to a slot emptied by a removal
C1_Witness ==
    /\ \E d \in Slots : SlotOccupied(d) /\ pads[d + 1].current_button_state # {}
    /\ \E d \in Slots : d < Len(pads) /\ SlotEmpty(d)

\* C2: for every index and button, is_gamepad_button_pressed and
\* is_gamepad_button_released are never both true.
C2_PressedReleasedExclusive ==
    \A d \in Indices, b \in GamepadButton :
        ~(is_gamepad_button_pressed(d, b) /\ is_gamepad_button_released(d, b))

\* queries run in a frame where one button rose and another fell
C2_Witness ==
    /\ pc = "update"
    /\ \E d \in Slots, b1, b2 \in GamepadButton :
           is_gamepad_button_pressed(d, b1) /\ is_gamepad_button_released(d, b2)

\* C3: when the drain of frame n ends and the queries run, a button reported
\* pressed is also reported down, and was not in the current_button_state its
\* device had at the end of frame n-1's drain (drain_end still holds that
\* value in the state the drain ends from).
C3_PressedIsRisingEdge ==
    [][ DrainDone =>
          \A d \in Slots, b \in GamepadButton :
              is_gamepad_button_pressed(d, b)' =>
                  /\ is_gamepad_button_down(d, b)'
                  /\ b \notin drain_end[d] ]_vars

\* queries run with one button newly pressed while another has been held
\* since an earlier frame
C3_Witness ==
    /\ pc = "update"
    /\ \E d \in Slots, b1, b2 \in GamepadButton :
           /\ is_gamepad_button_pressed(d, b1)
           /\ is_gamepad_button_down(d, b2)
           /\ ~is_gamepad_button_pressed(d, b2)

\* C4: when a drain ends, previous_button_state of every connected device is
\* the current_button_state that device had at the end of the prior frame's
\* drain; and no step of a drain that leaves a device connected changes its
\* previous_button_state.
C4_PreviousIsPriorDrainEnd ==
    [][ /\ DrainDone =>
              \A d \in Slots :
                  SlotOccupied(d) =>
                      pads[d + 1].previous_button_state = drain_end[d]
        /\ (pc = "events" /\ pc' = "events") =>
              \A d \in Slots :
                  (SlotOccupied(d) /\ SlotOccupied(d)') =>
                      pads'[d + 1].previous_button_state =
                          pads[d + 1].previous_button_state ]_vars

\* queries run after a drain that applied button and axis events to a device
\* whose previous buffer is non-empty and now differs from its current one
C4_Witness ==
    /\ pc = "update"
    /\ \E d \in Slots :
           /\ SlotOccupied(d)
           /\ pads[d + 1].previous_button_state # {}
           /\ pads[d + 1].previous_button_state # pads[d + 1].current_button_state
           /\ pads[d + 1].current_axis_state # {}

\* C5: a down event for a button that was up at the end of the prior frame
\* makes it pressed and down; within the drain only an up event for it or
\* the removal of its device ends that; the swap at the next frame boundary
\* leaves it down and not pressed; and in the next drain only an up event for
\* it or the removal of its device changes that.  So the rising edge is
\* reported in the frame whose drain applied it and in no other.
C5_RisingEdgeOneFrame ==
    [][ \A d \in Slots, b \in GamepadButton :
          /\ (/\ pc = "events"
              /\ SlotOccupied(d)
              /\ b \notin drain_end[d]
              /\ ~is_gamepad_button_down(d, b)
              /\ ControllerButtonDown(d, b)) =>
                 (is_gamepad_button_pressed(d, b)' /\ is_gamepad_button_down(d, b)')
          /\ (/\ pc = "events"
              /\ is_gamepad_button_pressed(d, b)
              /\ ~(is_gamepad_button_pressed(d, b)' /\ is_gamepad_button_down(d, b)')) =>
                 (ControllerButtonUp(d, b) \/ ControllerDeviceRemoved(d))
          /\ (/\ pc = "update"
              /\ is_gamepad_button_down(d, b)
              /\ BeginFrame) =>
                 (is_gamepad_button_down(d, b)' /\ ~is_gamepad_button_pressed(d, b)')
          /\ (/\ pc = "events"
              /\ is_gamepad_button_down(d, b)
              /\ ~is_gamepad_button_pressed(d, b)
              /\ ~(is_gamepad_button_down(d, b)' /\ ~is_gamepad_button_pressed(d, b)')) =>
                 (ControllerButtonUp(d, b) \/ ControllerDeviceRemoved(d))
      ]_vars

\* the frame after a press: the button is down, in both buffers, not pressed
C5_Witness ==
    /\ pc = "update"
    /\ \E d \in Slots, b \in GamepadButton :
           /\ SlotOccupied(d)
           /\ b \in drain_end[d]
           /\ b \in pads[d + 1].previous_button_state
           /\ is_gamepad_button_down(d, b)
           /\ ~is_gamepad_button_pressed(d, b)

\* C6: for an index that holds no connected device (emptied slot, or past
\* the end of the registry) every query returns its neutral value.
C6_DisconnectedIsNeutral ==
    \A d \in Indices :
        SlotEmpty(d) =>
            /\ ~is_gamepad_connected(d)
            /\ get_gamepad_buttons_down(d) = {}
            /\ get_gamepad_buttons_pressed(d) = {}
            /\ get_gamepad_buttons_released(d) = {}
            /\ \A b \in GamepadButton :
                   /\ ~is_gamepad_button_down(d, b)
                   /\ is_gamepad_button_up(d, b)
                   /\ ~is_gamepad_button_pressed(d, b)
                   /\ ~is_gamepad_button_released(d, b)
            /\ \A a \in GamepadAxis : get_gamepad_axis_position(d, a) = 0

\* queries on an emptied slot and on the index past the end, while the last
\* slot holds a device with a button down, a previous button and an axis set
C6_Witness ==
    /\ Len(pads) >= 2
    /\ SlotEmpty(0)
    /\ LET last == pads[Len(pads)]
       IN  /\ last.some
           /\ last.current_button_state # {}
           /\ last.previous_button_state # last.current_button_state
           /\ last.current_axis_state # {}

\* C7: a remove_gamepad(i) that does not panic changes slot i only: the
\* registry keeps its length and every other slot keeps its whole state.
C7_RemoveLeavesOthers ==
    [][ \A i \in Indices :
          (ControllerDeviceRemoved(i) /\ ~panicked') =>
              /\ Len(pads') = Len(pads)
              /\ SlotEmpty(i)'
              /\ \A j \in Slots :
                     (j # i /\ j < Len(pads)) => pads'[j + 1] = pads[j + 1] ]_vars

\* slot 0 was emptied while a later slot keeps a device with buttons and axes
C7_Witness ==
    /\ pc = "events"
    /\ Len(pads) >= 2
    /\ 0 \notin connected
    /\ \E j \in Slots :
           /\ j > 0 /\ j \in connected /\ SlotOccupied(j)
           /\ pads[j + 1].current_button_state # {}
           /\ pads[j + 1].current_axis_state # {}

\* the index add_gamepad should return: the lowest empty slot, else the length
LowestEmptySlot ==
    LET empty == { i \in 0..(Len(pads) - 1) : ~pads[i + 1].some }
    IN  IF empty # {}
        THEN CHOOSE i \in empty : \A j \in empty : i <= j
        ELSE Len(pads)

\* C8: add_gamepad does not panic and returns the lowest empty slot, or the
\* registry's previous length when no slot is empty; afterwards that slot
\* holds a new device with the given platform_id and no other slot changed.
C8_AddReusesLowestSlot ==
    [][ \A id \in PlatformIds :
          ControllerDeviceAdded(id) =>
              LET i == LowestEmptySlot
              IN  /\ ~panicked'
                  /\ connected' \ connected = { i }
                  /\ Len(pads') = (IF i = Len(pads) THEN Len(pads) + 1 ELSE Len(pads))
                  /\ pads'[i + 1] = GamepadState_new(id)
                  /\ \A j \in 0..(Len(pads) - 1) :
                         j # i => pads'[j + 1] = pads[j + 1] ]_vars

\* a freed slot 0 was taken again while a later slot kept its older device
C8_Witness ==
    /\ Len(pads) >= 2
    /\ SlotOccupied(0) /\ SlotOccupied(1)
    /\ pads[1].previous_button_state = {}
    /\ pads[1].current_button_state = {}
    /\ drain_end[1] # {}
    /\ pads[2].previous_button_state # {}

\* C9: the indices that is_gamepad_connected reports are exactly those
\* returned by an add_gamepad call and not removed since.
C9_ConnectedIsAddedNotRemoved ==
    { d \in Indices : is_gamepad_connected(d) } = connected

\* a device connected at a later slot after an earlier one was removed
C9_Witness ==
    /\ Len(pads) >= 2
    /\ connected # {}
    /\ \E d \in Slots : d \notin connected /\ (d + 1) \in connected

\* C10: remove_gamepad(i) on a slot that is within the registry's length and
\* already empty does not panic and leaves the registry unchanged.
C10_RemoveEmptyIsNoOp ==
    [][ \A i \in Slots :
          (ControllerDeviceRemoved(i) /\ i < Len(pads) /\ ~pads[i + 1].some) =>
              (~panicked' /\ pads' = pads) ]_vars

\* a drain in progress with an empty slot inside the registry, beside a
\* connected device, where a second disconnect notification can arrive
C10_Witness ==
    /\ pc = "events"
    /\ ~panicked
    /\ \E i \in Slots : i < Len(pads) /\ ~pads[i + 1].some /\ i \notin connected
    /\ connected # {}

\* C11: remove_gamepad(i) with an index at or past the registry's length
\* (also on an empty registry) does not crash the process.
C11_RemoveOutOfRangeNoCrash ==
    [][ \A i \in Indices :
          (i >= Len(pads) /\ ControllerDeviceRemoved(i)) => ~panicked' ]_vars

\* C12: when add_gamepad reuses the slot of a removed device, right after the
\* add no button is down, pressed or released at that index and every axis
\* reads 0, whatever the removed device's state was.
C12_ReusedSlotStartsEmpty ==
    [][ \A i \in Slots :
          (i < Len(pads) /\ i \notin connected /\ i \in connected') =>
              /\ get_gamepad_buttons_down(i)' = {}
              /\ get_gamepad_buttons_pressed(i)' = {}
              /\ get_gamepad_buttons_released(i)' = {}
              /\ \A b \in GamepadButton :
                     /\ ~is_gamepad_button_down(i, b)'
                     /\ ~is_gamepad_button_pressed(i, b)'
                     /\ ~is_gamepad_button_released(i, b)'
              /\ \A a \in GamepadAxis : get_gamepad_axis_position(i, a)' = 0 ]_vars

\* slot 0 holds a device in its initial state during a drain, while the
\* device of a later slot has held buttons over a frame and has an axis set
C12_Witness ==
    /\ pc = "events"
    /\ Len(pads) >= 2
    /\ \E id \in PlatformIds : pads[1] = GamepadState_new(id)
    /\ pads[2].some
    /\ pads[2].previous_button_state # {}
    /\ pads[2].current_axis_state # {}

\* C13: for a connected device the buttons yielded by
\* get_gamepad_buttons_pressed are current minus previous and those yielded by
\* get_gamepad_buttons_released are previous minus current; a button is
\* yielded exactly when is_gamepad_button_pressed (resp. released) is true.
C13_IteratorsAreDifferences ==
    \A d \in Slots :
        SlotOccupied(d) =>
            /\ get_gamepad_buttons_pressed(d) =
                   pads[d + 1].current_button_state \ pads[d + 1].previous_button_state
            /\ get_gamepad_buttons_released(d) =
                   pads[d + 1].previous_button_state \ pads[d + 1].current_button_state
            /\ get_gamepad_buttons_pressed(d) =
                   { b \in GamepadButton : is_gamepad_button_pressed(d, b) }
            /\ get_gamepad_buttons_released(d) =
                   { b \in GamepadButton : is_gamepad_button_released(d, b) }

\* queries run with one device yielding two pressed buttons and another
\* device yielding a released one
C13_Witness ==
    /\ pc = "update"
    /\ \E d, e \in Slots :
           /\ d # e
           /\ Cardinality(get_gamepad_buttons_pressed(d)) >= 2
           /\ get_gamepad_buttons_released(e) # {}

\* C19: set_button_down(b) on a device whose current_button_state has b, and
\* set_button_up(b) on one that has not, leave the device as it is;
\* set_button_down is idempotent; set_button_up of a button that was never
\* down leaves it neither down nor released; and either call changes at most
\* the membership of b in current_button_state.
C19_RedundantEventsAreNoOps ==
    \A d \in Slots, b \in GamepadButton :
        SlotOccupied(d) =>
            LET pad == pads[d + 1]
                dn == set_button_down(pad, b)
                up == set_button_up(pad, b)
            IN  /\ (b \in pad.current_button_state) => (dn = pad)
                /\ (b \notin pad.current_button_state) => (up = pad)
                /\ set_button_down(dn, b) = dn
                /\ b \in dn.current_button_state
                /\ b \notin up.current_button_state
                /\ (b \notin pad.current_button_state /\ b \notin pad.previous_button_state) =>
                       (b \notin up.current_button_state /\ b \notin up.previous_button_state)
                /\ dn.current_button_state \ { b } = pad.current_button_state \ { b }
                /\ up.current_button_state \ { b } = pad.current_button_state \ { b }
                /\ [ dn EXCEPT !.current_button_state = {} ] =
                       [ pad EXCEPT !.current_button_state = {} ]
                /\ [ up EXCEPT !.current_button_state = {} ] =
                       [ pad EXCEPT !.current_button_state = {} ]

\* a drain in which a device holds one button since the prior frame, not the
\* other, and has an axis set: a down for the first and an up for the second
\* are redundant
C19_Witness ==
    /\ pc = "events"
    /\ \E d \in Slots :
           /\ SlotOccupied(d)
           /\ pads[d + 1].current_button_state = { "A" }
           /\ pads[d + 1].previous_button_state = { "A" }
           /\ pads[d + 1].current_axis_state # {}

\* C14: for every index and stick, get_gamepad_stick_position is the pair of
\* get_gamepad_axis_position of the stick's x and y axes (LeftStick ->
\* LeftStickX, LeftStickY; RightStick -> RightStickX, RightStickY); for a
\* disconnected index, and for axes that were never set, the components are 0.
C14_StickIsAxisPair ==
    \A d \in Indices :
        /\ get_gamepad_stick_position(d, "LeftStick") =
               << get_gamepad_axis_position(d, "LeftStickX"),
                  get_gamepad_axis_position(d, "LeftStickY") >>
        /\ get_gamepad_stick_position(d, "RightStick") =
               << get_gamepad_axis_position(d, "RightStickX"),
                  get_gamepad_axis_position(d, "RightStickY") >>
        /\ SlotEmpty(d) =>
               \A s \in GamepadStick : get_gamepad_stick_position(d, s) = << 0, 0 >>
        /\ SlotOccupied(d) =>
               LET set == { e[1] : e \in pads[d + 1].current_axis_state }
               IN  /\ "LeftStickX" \notin set =>
                          get_gamepad_stick_position(d, "LeftStick")[1] = 0
                   /\ "LeftStickY" \notin set =>
                          get_gamepad_stick_position(d, "LeftStick")[2] = 0
                   /\ "RightStickX" \notin set =>
                          get_gamepad_stick_position(d, "RightStick")[1] = 0
                   /\ "RightStickY" \notin set =>
                          get_gamepad_stick_position(d, "RightStick")[2] = 0

\* a device with LeftStickX and RightStickY set and the other two axes
\* unset, next to a slot emptied by a removal
C14_Witness ==
    /\ \E d \in Slots :
           /\ SlotOccupied(d)
           /\ { e[1] : e \in pads[d + 1].current_axis_state } =
                  { "LeftStickX", "RightStickY" }
    /\ \E d \in Slots : d < Len(pads) /\ SlotEmpty(d)

\* the keyboard state that applying `events` in order leaves
RECURSIVE KeysAfter(_)
KeysAfter(events) ==
    IF events = << >>
    THEN {}
    ELSE LET event == events[Len(events)]
             keys == KeysAfter(SubSeq(events, 1, Len(events) - 1))
         IN  IF event.type = "KeyDown"
             THEN set_key_down(keys, event.key)
             ELSE set_key_up(keys, event.key)

RightModifiers == { "RightCtrl", "RightShift", "RightAlt" }

\* C15: events are applied in the order they were appended, none twice and
\* none skipped: the applied events followed by the queued ones are exactly
\* the appended ones, and the keyboard state is the result of applying the
\* applied events in that order.
C15_AppliedInAppendOrder ==
    /\ pushed = applied \o event_queue
    /\ current_key_state = KeysAfter(applied)

C15_Witness ==
    /\ Len(applied) >= 2
    /\ applied[1] # applied[2]
    /\ event_queue # << >>

\* C16: a call of handle_events terminates, and when it returns the queue is
\* empty and every event queued when it began has been applied.
C16_HandleEventsDrainsFully ==
    /\ (pc = "events") ~> (pc = "update")
    /\ [][ HandleEventsReturn =>
             /\ event_queue' = << >>
             /\ Len(applied') >= drain_start
             /\ SubSeq(applied', 1, drain_start) = SubSeq(pushed, 1, drain_start)
         ]_vars

C16_Witness ==
    /\ pc = "update"
    /\ drain_start >= 2
    /\ Len(applied) = drain_start
    /\ event_queue = << >>

C18_CallbackAppendsOneEvent ==
    [][ \A raw \in WebRawEvents :
          LET k == into_key(raw[1], raw[2])
          IN  /\ keydown_closure(raw[1], raw[2]) =>
                    /\ event_queue' = IF k = "None"
                                      THEN event_queue
                                      ELSE Append(event_queue, KeyDown(k))
                    /\ current_key_state' = current_key_state
                    /\ pads' = pads
              /\ keyup_closure(raw[1], raw[2]) =>
                    /\ event_queue' = IF k = "None"
                                      THEN event_queue
                                      ELSE Append(event_queue, KeyUp(k))
                    /\ current_key_state' = current_key_state
                    /\ pads' = pads
      ]_vars

C18_Witness ==
    /\ Len(event_queue) >= 2
    /\ event_queue[1].type = "KeyDown"
    /\ event_queue[Len(event_queue)].type = "KeyUp"
    /\ current_key_state = {}

\* C20: into_key returns no right-hand modifier for any input: Control, Shift
\* and Alt give the left-hand key at the left location and None at every
\* other location, and no queued event carries a right-hand modifier.
C20_NoRightModifiers ==
    /\ \A raw \in AllRawEvents : into_key(raw[1], raw[2]) \notin RightModifiers
    /\ \A location \in Locations :
          /\ into_key("Control", location) =
                 IF location = "LEFT" THEN "LeftCtrl" ELSE "None"
          /\ into_key("Shift", location) =
                 IF location = "LEFT" THEN "LeftShift" ELSE "None"
          /\ into_key("Alt", location) =
                 IF location = "LEFT" THEN "LeftAlt" ELSE "None"
    /\ \A n \in DOMAIN event_queue : event_queue[n].key \notin RightModifiers

C20_Witness ==
    /\ event_queue # << >>
    /\ event_queue[1].key \in { "LeftCtrl", "LeftShift", "LeftAlt" }

\* C21: only the net state at the end of a drain shows. A button that was up
\* when the prior drain ended and took a down event and then an up event in
\* one drain is reported neither down, pressed nor released, in that frame
\* and in every later one until its next event; a button that was down and
\* took an up event and then a down event is reported down, and neither
\* pressed nor released.
C21_TapIsLost ==
    \A x \in DOMAIN tap_state :
       /\ tap_state[x] = "tap" =>
             /\ ~is_gamepad_button_down(x[1], x[2])
             /\ ~is_gamepad_button_pressed(x[1], x[2])
             /\ ~is_gamepad_button_released(x[1], x[2])
       /\ tap_state[x] = "retap" =>
             /\ is_gamepad_button_down(x[1], x[2])
             /\ ~is_gamepad_button_pressed(x[1], x[2])
             /\ ~is_gamepad_button_released(x[1], x[2])

C21_Witness ==
    /\ pc = "update"
    /\ \E x \in DOMAIN tap_state, y \in DOMAIN tap_state :
          /\ tap_state[x] = "tap"
          /\ tap_state[y] = "retap"
          /\ is_gamepad_connected(x[1])
          /\ is_gamepad_connected(y[1])

\* C22: the registry's length never decreases, and it is the largest number
\* of devices that were connected at the same time.
C22_LengthIsMostConnected ==
    /\ [](Len(pads) = max_connected)
    /\ [][Len(pads') >= Len(pads)]_vars

C22_Witness ==
    /\ max_connected = MaxPads
    /\ Len(pads) = MaxPads
    /\ NumConnected = 0
    /\ connected = {}

\* the digit keys, each with the numpad key of the same digit
NumPadDigits ==
    { << "0", "NumPad0" >>, << "1", "NumPad1" >>, << "2", "NumPad2" >>,
      << "3", "NumPad3" >>, << "4", "NumPad4" >>, << "5", "NumPad5" >>,
      << "6", "NumPad6" >>, << "7", "NumPad7" >>, << "8", "NumPad8" >>,
      << "9", "NumPad9" >> }

\* C23: into_key translates every digit key at the numpad location to the
\* numpad key of the same digit: the event a callback queues for such a key
\* carries that numpad key.
C23_NumPadDigitsKeepTheirDigit ==
    [][ \A d \in NumPadDigits :
          /\ keydown_closure(d[1], "NUMPAD") =>
                 event_queue' = Append(event_queue, KeyDown(d[2]))
          /\ keyup_closure(d[1], "NUMPAD") =>
                 event_queue' = Append(event_queue, KeyUp(d[2]))
      ]_vars

====
